---- MODULE Spec2Model ----
(***************************************************************************)
(* Model of app1.py, the Zepto strategy dashboard: a Streamlit script that *)
(* is executed top to bottom on every (re)run.  One run loads the CSV      *)
(* through the st.cache_data-decorated load_data, builds four sidebar      *)
(* filters, filters the table, shows the KPI row and renders four tabs.    *)
(*                                                                         *)
(* Encodings.  A DataFrame is a sequence of records (one per row).  A      *)
(* nullable numeric cell is a sequence of length 0 (missing) or 1.         *)
(* Delivery_Time_mins is a decimal that is kept in hundredths of a minute  *)
(* (Mins(10, 1) is 10.01).  A mean is kept exactly, as the pair num/den.   *)
(* The rendered page is the set `out` of the elements shown so far.        *)
(***************************************************************************)
EXTENDS Integers, Sequences, FiniteSets, TLC

VARIABLES
    file,          \* Zepto_Analytics_Dataset.csv on disk: [status, rows]
    cache,         \* st.cache_data entry of load_data: <<>> or <<[value, msgs]>>
    pc,            \* position of the running script
    df,            \* module-level df (line 60)
    all_selected,  \* per filter column: value of the "Select All" checkbox
    selected,      \* per filter column: selected_values returned by create_filter
    df_filtered,   \* line 100
    kpi,           \* <<>> or <<[total_revenue, breach_rate, avg_delivery, avg_basket_size]>>
    y_col,         \* tab 4: Y axis column ("" before tab 4 ran)
    agg_func,      \* tab 4: agg_func ("None" when not aggregating)
    out            \* elements rendered so far in this run

vars == <<file, cache, pc, df, all_selected, selected, df_filtered, kpi,
          y_col, agg_func, out>>

-----------------------------------------------------------------------------
\* Bounds of the model
MaxRows == 2
MaxAge == 70

-----------------------------------------------------------------------------
\* Values

NaN == "NaN"

\* a decimal number of minutes m.cc, in hundredths
Mins(m, c) == m * 100 + c

IsNull(cell) == cell = <<>>

RawRow(city, cat, gender, age, price, qty, dtime) ==
    [City |-> city, Product_Category |-> cat, Gender |-> gender, Age |-> age,
     Price |-> price, Quantity |-> qty, Delivery_Time_mins |-> dtime]

\* Rows the CSV may contain
RowDomain ==
    { RawRow("Mumbai", "Snacks", "F", <<30>>, 100, 2, Mins(12, 0)),
      RawRow("Delhi",  "Dairy",  "M", <<25>>,  50, 1, Mins(8, 0)),
      RawRow("Mumbai", "Dairy",  "F", <<18>>,  30, 1, Mins(10, 0)),
      RawRow("Delhi",  "Snacks", "M", <<60>>,   0, 3, Mins(10, 1)),
      RawRow("Mumbai", "Snacks", "M", <<>>,    20, 1, Mins(10, 0)) }

\* One-row files that sweep the age and the delivery time over their ranges
SweepRows ==
    { RawRow("Delhi", "Dairy", "F", <<a>>, 10, 1, d) :
        a \in 0..MaxAge, d \in {Mins(9, 99), Mins(10, 0), Mins(10, 1)} }

SeqsUpTo(S, n) == UNION { [1..k -> S] : k \in 0..n }

Tables == SeqsUpTo(RowDomain, MaxRows) \cup { <<r>> : r \in SweepRows }

FileOk(rows) == [status |-> "ok", rows |-> rows]
FileMissing == [status |-> "missing", rows |-> <<>>]
FileUnreadable == [status |-> "unreadable", rows |-> <<>>]

Files == { FileOk(t) : t \in Tables } \cup {FileMissing, FileUnreadable}

\* Files of the multi-run specification
CacheFiles == { FileOk(t) : t \in SeqsUpTo(RowDomain, 1) }
                  \cup {FileMissing, FileUnreadable}

-----------------------------------------------------------------------------
\* load_data: feature engineering

SLA_LIMIT == 10

SLA_BreachGeq(row) == row.Delivery_Time_mins >= Mins(SLA_LIMIT, 0)

SLA_Breach(row) == row.Delivery_Time_mins > Mins(SLA_LIMIT, 0)

SLA_Status(breach) == IF breach THEN "Breached (>10m)" ELSE "On Time (<=10m)"

bins == <<18, 25, 35, 45, 55, 65>>
labels == <<"18-25", "26-35", "36-45", "46-55", "56-65">>

CutBinsLeftClosed(a) ==
    { i \in 1..Len(labels) : bins[i] <= a /\ a < bins[i + 1] }

\* pd.cut(..., right=True): the bins whose interval (bins[i], bins[i+1]] holds a
CutBins(a) ==
    { i \in 1..Len(labels) : bins[i] < a /\ a <= bins[i + 1] }

Cut(age) ==
    IF IsNull(age) \/ CutBins(age[1]) = {}
    THEN NaN
    ELSE labels[CHOOSE i \in CutBins(age[1]) : TRUE]

Total_SpendAdd(row) == row.Price + row.Quantity

Total_Spend(row) == row.Price * row.Quantity

DeriveRow(row) ==
    [City |-> row.City, Product_Category |-> row.Product_Category,
     Gender |-> row.Gender, Age |-> row.Age, Price |-> row.Price,
     Quantity |-> row.Quantity, Delivery_Time_mins |-> row.Delivery_Time_mins,
     SLA_Breach |-> SLA_Breach(row),
     SLA_Status |-> SLA_Status(SLA_Breach(row)),
     Age_Group |-> Cut(row.Age),
     Total_Spend |-> Total_Spend(row)]

\* the body of the try block of load_data
Canonical(rows) == [i \in 1..Len(rows) |-> DeriveRow(rows[i])]

EmptyFrame == <<>>

NoEntry == <<>>
Entry(value, msgs) == <<[value |-> value, msgs |-> msgs]>>

-----------------------------------------------------------------------------
\* Sidebar filters

FilterCols == <<"City", "Product_Category", "Age_Group", "Gender">>
FilterSet == {FilterCols[i] : i \in 1..Len(FilterCols)}

\* sorted(df[column_name].dropna().unique())
Options(frame, column_name) ==
    { frame[i][column_name] : i \in 1..Len(frame) } \ {NaN}

isin(value, values) == value \in values

RowMatchesNoGender(row, sel) ==
    /\ isin(row.City, sel["City"])
    /\ isin(row.Product_Category, sel["Product_Category"])
    /\ isin(row.Age_Group, sel["Age_Group"])

RowMatches(row, sel) ==
    /\ isin(row.City, sel["City"])
    /\ isin(row.Product_Category, sel["Product_Category"])
    /\ isin(row.Age_Group, sel["Age_Group"])
    /\ isin(row.Gender, sel["Gender"])

ApplyMask(frame, sel) ==
    LET keep(row) == RowMatches(row, sel)
    IN  SelectSeq(frame, keep)

-----------------------------------------------------------------------------
\* KPI row

RECURSIVE ColSum(_, _)
ColSum(frame, col) ==
    IF frame = <<>> THEN 0
    ELSE frame[1][col] + ColSum(Tail(frame), col)

RECURSIVE ColCountTrue(_, _)
ColCountTrue(frame, col) ==
    IF frame = <<>> THEN 0
    ELSE (IF frame[1][col] THEN 1 ELSE 0) + ColCountTrue(Tail(frame), col)

Ratio(n, d) == [num |-> n, den |-> d]

\* Series.mean() of a numeric column without missing cells
ColMean(frame, col) == Ratio(ColSum(frame, col), Len(frame))

\* Series.mean() of a boolean column: True counts 1, False counts 0
BoolMean(frame, col) == Ratio(ColCountTrue(frame, col), Len(frame))

Scale(q, k) == Ratio(q.num * k, q.den)

Kpis(frame) ==
    [total_revenue   |-> ColSum(frame, "Total_Spend"),
     breach_rate     |-> Scale(BoolMean(frame, "SLA_Breach"), 100),
     avg_delivery    |-> ColMean(frame, "Delivery_Time_mins"),
     avg_basket_size |-> ColMean(frame, "Quantity")]

-----------------------------------------------------------------------------
\* Tab 4

\* df.columns without Customer_ID, Product_ID and Order_Time
cols == {"City", "Product_Category", "Gender", "Age", "Price", "Quantity",
         "Delivery_Time_mins", "Loyalty_Points_Earned", "SLA_Breach",
         "SLA_Status", "Age_Group", "Hour", "Day_of_Week", "Total_Spend"}

NumericCols == {"Age", "Price", "Quantity", "Delivery_Time_mins",
                "Loyalty_Points_Earned", "SLA_Breach", "Hour", "Total_Spend"}

ChartTypes == {"Scatter", "Bar", "Line", "Histogram", "Box", "Violin"}

\* the values agg_func can take for a chart type (lines 257-268)
AggFuncs(chart_type) ==
    IF chart_type \in {"Bar", "Line"}
    THEN {"None", "sum", "mean", "count"}
    ELSE {"None"}

\* What the body of the try block does: the mean of a text or categorical
\* column raises; its sum raises or concatenates, depending on the column
\* type and the pandas version.
PlotOutcomes(y, agg) ==
    IF agg = "mean" /\ y \notin NumericCols THEN {"tab4_error"}
    ELSE IF agg = "sum" /\ y \notin NumericCols THEN {"tab4_error", "tab4_chart"}
    ELSE {"tab4_chart"}

-----------------------------------------------------------------------------
\* The script

FilterPc(column_name) ==
    CASE column_name = "City" -> "filter_City"
      [] column_name = "Product_Category" -> "filter_Product_Category"
      [] column_name = "Age_Group" -> "filter_Age_Group"
      [] column_name = "Gender" -> "filter_Gender"

AfterFilter(column_name) ==
    CASE column_name = "City" -> "filter_Product_Category"
      [] column_name = "Product_Category" -> "filter_Age_Group"
      [] column_name = "Age_Group" -> "filter_Gender"
      [] column_name = "Gender" -> "apply_filters"

RunStart ==
    /\ pc = "load_data"
    /\ df = EmptyFrame
    /\ all_selected = [c \in FilterSet |-> TRUE]
    /\ selected = [c \in FilterSet |-> {}]
    /\ df_filtered = EmptyFrame
    /\ kpi = <<>>
    /\ y_col = ""
    /\ agg_func = "None"
    /\ out = {"title"}

Init ==
    /\ file \in Files
    /\ cache = NoEntry
    /\ RunStart

InitCache ==
    /\ file \in CacheFiles
    /\ cache = NoEntry
    /\ RunStart

\* df = load_data() under @st.cache_data (lines 28-60)
LoadData ==
    /\ pc = "load_data"
    /\ IF cache # NoEntry
       THEN \* cache hit: the stored value is returned, the stored st calls replayed
            /\ df' = cache[1].value
            /\ out' = out \cup cache[1].msgs
            /\ pc' = "check_empty"
            /\ UNCHANGED cache
       ELSE IF file.status = "ok"
       THEN /\ df' = Canonical(file.rows)
            /\ cache' = Entry(Canonical(file.rows), {})
            /\ pc' = "check_empty"
            /\ UNCHANGED out
       ELSE IF file.status = "missing"
       THEN \* except FileNotFoundError
            /\ df' = EmptyFrame
            /\ cache' = Entry(EmptyFrame, {"load_error"})
            /\ out' = out \cup {"load_error"}
            /\ pc' = "check_empty"
       ELSE \* any other exception leaves load_data and ends the run
            /\ out' = out \cup {"exception"}
            /\ pc' = "stopped"
            /\ UNCHANGED <<df, cache>>
    /\ UNCHANGED <<file, all_selected, selected, df_filtered, kpi, y_col, agg_func>>

\* if df.empty: st.stop() (lines 62-63), else the sidebar header
CheckEmpty ==
    /\ pc = "check_empty"
    /\ IF Len(df) = 0
       THEN pc' = "stopped" /\ UNCHANGED out
       ELSE pc' = FilterPc(FilterCols[1]) /\ out' = out \cup {"sidebar_header"}
    /\ UNCHANGED <<file, cache, df, all_selected, selected, df_filtered, kpi,
                   y_col, agg_func>>

\* selected_x = create_filter(label, column_name)
create_filter(column_name) ==
    /\ pc = FilterPc(column_name)
    /\ LET options == Options(df, column_name)
       IN  \E checkbox \in BOOLEAN :
           \E multiselect \in SUBSET options :
              /\ checkbox => multiselect = options
              /\ all_selected' = [all_selected EXCEPT ![column_name] = checkbox]
              /\ selected' = [selected EXCEPT ![column_name] =
                                 IF checkbox THEN options ELSE multiselect]
    /\ out' = out \cup {FilterPc(column_name)}
    /\ pc' = AfterFilter(column_name)
    /\ UNCHANGED <<file, cache, df, df_filtered, kpi, y_col, agg_func>>

\* df_filtered = df[...] and the "Data Points" info (lines 100-108)
ApplyFilters ==
    /\ pc = "apply_filters"
    /\ df_filtered' = ApplyMask(df, selected)
    /\ out' = out \cup {"data_points"}
    /\ pc' = "kpi_row"
    /\ UNCHANGED <<file, cache, df, all_selected, selected, kpi, y_col, agg_func>>

KpiRowNoGuard ==
    /\ pc = "kpi_row"
    /\ kpi' = <<Kpis(df_filtered)>>
    /\ out' = out \cup {"kpi"}
    /\ pc' = "tab1"
    /\ UNCHANGED <<file, cache, df, all_selected, selected, df_filtered,
                   y_col, agg_func>>

\* lines 113-128
KpiRow ==
    /\ pc = "kpi_row"
    /\ IF Len(df_filtered) # 0
       THEN /\ kpi' = <<Kpis(df_filtered)>>
            /\ out' = out \cup {"kpi"}
            /\ pc' = "tab1"
       ELSE /\ out' = out \cup {"no_data_warning"}
            /\ pc' = "stopped"
            /\ UNCHANGED kpi
    /\ UNCHANGED <<file, cache, df, all_selected, selected, df_filtered,
                   y_col, agg_func>>

Render(at, element, then) ==
    /\ pc = at
    /\ out' = out \cup {element}
    /\ pc' = then
    /\ UNCHANGED <<file, cache, df, all_selected, selected, df_filtered, kpi,
                   y_col, agg_func>>

Tab1 == Render("tab1", "tab1", "tab2")
Tab2 == Render("tab2", "tab2", "tab3")
Tab3 == Render("tab3", "tab3", "tab4")

Tab4NoExcept ==
    /\ pc = "tab4"
    /\ \E y \in cols, chart_type \in ChartTypes :
       \E agg \in AggFuncs(chart_type) :
       \E outcome \in PlotOutcomes(y, agg) :
          /\ y_col' = y
          /\ agg_func' = agg
          /\ IF outcome = "tab4_error"
             THEN out' = out \cup {"exception"} /\ pc' = "stopped"
             ELSE out' = out \cup {outcome} /\ pc' = "footer"
    /\ UNCHANGED <<file, cache, df, all_selected, selected, df_filtered, kpi>>

\* lines 237-303: the controls, then the plot inside try/except Exception.
\* The X axis and the colour column shape the figure only and are left out.
Tab4 ==
    /\ pc = "tab4"
    /\ \E y \in cols, chart_type \in ChartTypes :
       \E agg \in AggFuncs(chart_type) :
       \E outcome \in PlotOutcomes(y, agg) :
          /\ y_col' = y
          /\ agg_func' = agg
          /\ out' = out \cup {outcome}
    /\ pc' = "footer"
    /\ UNCHANGED <<file, cache, df, all_selected, selected, df_filtered, kpi>>

Footer == Render("footer", "footer", "done")

\* A new run of the script in the same server process (a widget interaction
\* or a new session); the file on disk may have changed since the last run.
Rerun ==
    /\ pc \in {"done", "stopped"}
    /\ \E f \in CacheFiles : file' = f
    /\ pc' = "load_data"
    /\ df' = EmptyFrame
    /\ all_selected' = [c \in FilterSet |-> TRUE]
    /\ selected' = [c \in FilterSet |-> {}]
    /\ df_filtered' = EmptyFrame
    /\ kpi' = <<>>
    /\ y_col' = ""
    /\ agg_func' = "None"
    /\ out' = {"title"}
    /\ UNCHANGED cache

Next ==
    \/ LoadData
    \/ CheckEmpty
    \/ \E i \in 1..Len(FilterCols) : create_filter(FilterCols[i])
    \/ ApplyFilters
    \/ KpiRow
    \/ Tab1
    \/ Tab2
    \/ Tab3
    \/ Tab4
    \/ Footer

NextCache == Next \/ Rerun

Spec == Init /\ [][Next]_vars

SpecCache == InitCache /\ [][NextCache]_vars

-----------------------------------------------------------------------------
\* Properties

Rows(frame) == { frame[i] : i \in 1..Len(frame) }

RECURSIVE SeqSum(_)
SeqSum(s) == IF s = <<>> THEN 0 ELSE s[1] + SeqSum(Tail(s))

Filtered == "data_points" \in out

DashboardElements ==
    {"sidebar_header", "filter_City", "filter_Product_Category",
     "filter_Age_Group", "filter_Gender", "data_points", "kpi",
     "tab1", "tab2", "tab3", "tab4_chart", "tab4_error", "footer"}

TabViews == {"tab1", "tab2", "tab3", "tab4_chart", "tab4_error"}

InAllSelected(row) ==
    /\ row.City \in selected["City"]
    /\ row.Product_Category \in selected["Product_Category"]
    /\ row.Age_Group \in selected["Age_Group"]
    /\ row.Gender \in selected["Gender"]

KeptIndexes == { j \in 1..Len(df) : InAllSelected(df[j]) }

\* the i-th smallest index of a set of indexes
Nth(K, i) == CHOOSE j \in K : Cardinality({ m \in K : m <= j }) = i

\* C1: once the filter step has run, df_filtered holds exactly the rows of df
\* whose City, Product_Category, Age_Group and Gender are each in the selected
\* set of that attribute, in the order of df; and one empty selected set makes
\* df_filtered empty.
C1_FilterIsConjunction ==
    Filtered =>
        /\ Len(df_filtered) = Cardinality(KeptIndexes)
        /\ \A i \in 1..Len(df_filtered) : df_filtered[i] = df[Nth(KeptIndexes, i)]
        /\ (\E c \in FilterSet : selected[c] = {}) => df_filtered = <<>>

\* a row is dropped for its gender alone while another row is kept
C1_Witness ==
    /\ Filtered
    /\ Len(df_filtered) > 0
    /\ \E j \in 1..Len(df) :
          /\ df[j].City \in selected["City"]
          /\ df[j].Product_Category \in selected["Product_Category"]
          /\ df[j].Age_Group \in selected["Age_Group"]
          /\ df[j].Gender \notin selected["Gender"]

\* C2: with the four "Select All" checkboxes ticked, the filter step drops no
\* row: df_filtered equals df row for row.
C2_SelectAllKeepsEveryRow ==
    (Filtered /\ \A c \in FilterSet : all_selected[c]) => df_filtered = df

\* C3: a loaded row has no age group exactly when its age is missing, below 18
\* or above 65; age 18 is in '18-25'.
C3_GroupOnClosedRange ==
    \A row \in Rows(df) :
        /\ row.Age_Group = NaN <=>
              \/ IsNull(row.Age)
              \/ row.Age[1] < bins[1]
              \/ row.Age[1] > bins[Len(bins)]
        /\ row.Age = <<18>> => row.Age_Group = "18-25"

\* C4: the age group of a loaded row is the label of the bin (lo, hi] that
\* holds its age: left-exclusive, right-inclusive, at most one group per age;
\* 25 -> '18-25', 26 -> '26-35', 35 -> '26-35', 65 -> '56-65', 66 -> none.
C4_RightInclusiveBins ==
    \A row \in Rows(df) :
        ~IsNull(row.Age) =>
            LET a == row.Age[1] IN
            /\ \A i \in 1..Len(labels) :
                  row.Age_Group = labels[i] <=> (bins[i] < a /\ a <= bins[i + 1])
            /\ Cardinality({ i \in 1..Len(labels) : row.Age_Group = labels[i] }) <= 1
            /\ a = 25 => row.Age_Group = "18-25"
            /\ a = 26 => row.Age_Group = "26-35"
            /\ a = 35 => row.Age_Group = "26-35"
            /\ a = 65 => row.Age_Group = "56-65"
            /\ a = 66 => row.Age_Group = NaN

\* a loaded row of age 25, on an interior edge, sits in the lower bin
C4_Witness ==
    \E row \in Rows(df) : row.Age = <<25>> /\ row.Age_Group = "18-25"

\* C5: a loaded row is an SLA breach iff its delivery time is strictly above
\* 10 minutes (10.00 is not, 10.01 is), and its status is 'Breached' exactly
\* when it is a breach and 'On Time' otherwise.
C5_StrictSlaThreshold ==
    \A row \in Rows(df) :
        /\ row.SLA_Breach <=> row.Delivery_Time_mins > 1000
        /\ row.Delivery_Time_mins = 1000 => ~row.SLA_Breach
        /\ row.Delivery_Time_mins = 1001 => row.SLA_Breach
        /\ row.SLA_Status = (IF row.SLA_Breach THEN "Breached (>10m)"
                                               ELSE "On Time (<=10m)")

\* a table with a delivery of exactly 10.00 (on time) and one of 10.01 (breached)
C5_Witness ==
    /\ \E row \in Rows(df) :
          row.Delivery_Time_mins = 1000 /\ row.SLA_Status = "On Time (<=10m)"
    /\ \E row \in Rows(df) :
          row.Delivery_Time_mins = 1001 /\ row.SLA_Status = "Breached (>10m)"

ExampleMumbai == RawRow("Mumbai", "Snacks", "F", <<30>>, 100, 2, 1200)
ExampleDelhi == RawRow("Delhi", "Dairy", "M", <<25>>, 50, 1, 800)

OnlyCityNarrowed(cities) ==
    /\ selected["City"] = cities
    /\ \A c \in FilterSet \ {"City"} : selected[c] = Options(df, c)

\* C6: when the KPI row is shown, total revenue is the sum of Price x Quantity
\* over the rows of df_filtered, the breach rate is 100 x (rows delivered in
\* more than 10 minutes) / (rows), the average delivery time and the average
\* basket size are the sums of the column over the number of rows; for the two
\* example rows, City in {Mumbai} gives 200, 100%, 12 and both cities give
\* 250, 50%, 10.
C6_KpiValues ==
    "kpi" \in out =>
        LET k == kpi[1]
            n == Len(df_filtered)
            spend == [i \in 1..n |-> df_filtered[i].Price * df_filtered[i].Quantity]
            late == { i \in 1..n : df_filtered[i].Delivery_Time_mins > 1000 }
            dtime == [i \in 1..n |-> df_filtered[i].Delivery_Time_mins]
            qty == [i \in 1..n |-> df_filtered[i].Quantity]
        IN
        /\ n > 0
        /\ k.total_revenue = SeqSum(spend)
        /\ k.breach_rate.den > 0
        /\ k.breach_rate.num * n = 100 * Cardinality(late) * k.breach_rate.den
        /\ k.avg_delivery.den > 0
        /\ k.avg_delivery.num * n = SeqSum(dtime) * k.avg_delivery.den
        /\ k.avg_basket_size.den > 0
        /\ k.avg_basket_size.num * n = SeqSum(qty) * k.avg_basket_size.den
        /\ (file.rows = <<ExampleMumbai, ExampleDelhi>> /\ OnlyCityNarrowed({"Mumbai"})) =>
              /\ k.total_revenue = 200
              /\ k.breach_rate.num = 100 * k.breach_rate.den
              /\ k.avg_delivery.num = 1200 * k.avg_delivery.den
        /\ (file.rows = <<ExampleMumbai, ExampleDelhi>> /\ OnlyCityNarrowed({"Mumbai", "Delhi"})) =>
              /\ k.total_revenue = 250
              /\ k.breach_rate.num = 50 * k.breach_rate.den
              /\ k.avg_delivery.num = 1000 * k.avg_delivery.den

\* the KPI row of the two example rows filtered to Mumbai
C6_Witness ==
    /\ "kpi" \in out
    /\ file.rows = <<ExampleMumbai, ExampleDelhi>>
    /\ OnlyCityNarrowed({"Mumbai"})
    /\ kpi[1].total_revenue = 200

\* C7: past the KPI step, an empty df_filtered means the run stopped on the
\* 'no data' warning with no KPI computed or shown and no tab rendered; a
\* non-empty df_filtered means the warning is not shown and the KPI row is,
\* also when the total revenue is 0.
C7_NoDataState ==
    /\ "no_data_warning" \in out => (df_filtered = <<>> /\ pc = "stopped")
    /\ (Filtered /\ pc # "kpi_row") =>
          IF df_filtered = <<>>
          THEN /\ pc = "stopped"
               /\ "no_data_warning" \in out
               /\ kpi = <<>>
               /\ out \cap ({"kpi", "footer"} \cup TabViews) = {}
          ELSE /\ "no_data_warning" \notin out
               /\ "kpi" \in out
               /\ kpi # <<>>

\* a loaded, non-empty table filtered to nothing ends in the 'no data' state
C7_Witness ==
    /\ Len(df) > 0
    /\ Filtered
    /\ df_filtered = <<>>
    /\ pc = "stopped"
    /\ "no_data_warning" \in out

C9_CacheFollowsFile ==
    (pc # "load_data" /\ "exception" \notin out) =>
        df = (IF file.status = "ok" THEN Canonical(file.rows) ELSE EmptyFrame)

InvalidAggregation == agg_func = "mean" /\ y_col \in cols \ NumericCols

\* C10: when the plot of tab 4 fails (as the average of a non-numeric column
\* does), the error is shown in tab 4, the KPI row and the three other tabs
\* stay rendered, no exception ends the run, and the script goes on to the
\* footer.
C10_PlotErrorIsLocal ==
    (InvalidAggregation \/ "tab4_error" \in out) =>
        /\ "tab4_error" \in out
        /\ {"kpi", "tab1", "tab2", "tab3"} \subseteq out
        /\ "exception" \notin out
        /\ pc \in {"footer", "done"}
        /\ pc = "done" => "footer" \in out

\* a finished run whose tab 4 asked for the average of the City column
C10_Witness ==
    /\ pc = "done"
    /\ agg_func = "mean"
    /\ y_col = "City"
    /\ {"kpi", "tab1", "tab2", "tab3", "tab4_error", "footer"} \subseteq out

====
